---- MODULE Spec2Model ----
(***************************************************************************)
(* maze-lvl-maker: conversion of a colour-coded raster image into a level  *)
(* description (src/src/main.rs).  The state machine follows main():       *)
(* the row-major scan (horizontal walls and markers), the column-major     *)
(* scan (vertical walls), the filter/append reconciliation, the            *)
(* sort/reverse ranking and the serialisation of the Lvl value.            *)
(***************************************************************************)
EXTENDS Integers, Sequences, FiniteSets, TLC

\* Bounds of the decoded image handed to main().
MaxW == 2
MaxH == 3
MaxCells == 6

\* Bounds of the palette-valid images of SpecScan: rows and columns long
\* enough to hold several runs, and runs of more than two cells.
ScanW == 5
ScanH == 5

\* Colour samples [r, g, b, a] the decoder may hand over: the five palette
\* colours (with differing alpha values), and one sample outside the palette.
Black  == <<0, 0, 0, 255>>
Red    == <<255, 0, 0, 255>>
Green  == <<0, 255, 0, 255>>
Blue   == <<0, 0, 255, 128>>
White  == <<255, 255, 255, 0>>
Yellow == <<255, 255, 0, 255>>
Pixels == {Black, Red, Green, Blue, White, Yellow}
PalettePixels == {Black, Red, Green, Blue, White}

VARIABLES
    img,               \* decoded image: [<<x, y>> -> colour sample]
    width, height,     \* img.width(), img.height()
    pc,                \* position of main()
    x, y,              \* the scan cursors
    horizontal_walls,  \* Vec<Wall> of the row-major scan
    vertical_walls,    \* Vec<Wall> of the column-major scan
    walls,             \* the reconciled Vec<Wall>
    lvl,               \* the Lvl under construction
    out                \* what was serialised: <<>> or <<Lvl>>

vars == <<img, width, height, pc, x, y, horizontal_walls, vertical_walls,
          walls, lvl, out>>

----------------------------------------------------------------------------
\* SquareType::from([u8; 4]): alpha is ignored; any other sample hits
\* unimplemented!(), which panics.
From_Fallback(value) ==
    CASE value[1] = 0   /\ value[2] = 0   /\ value[3] = 0   -> "Wall"
      [] value[1] = 255 /\ value[2] = 0   /\ value[3] = 0   -> "End"
      [] value[1] = 0   /\ value[2] = 255 /\ value[3] = 0   -> "Start"
      [] value[1] = 0   /\ value[2] = 0   /\ value[3] = 255 -> "Checkpoint"
      [] OTHER                                              -> "Empty"

From(value) ==
    CASE value[1] = 0   /\ value[2] = 0   /\ value[3] = 0   -> "Wall"
      [] value[1] = 255 /\ value[2] = 0   /\ value[3] = 0   -> "End"
      [] value[1] = 0   /\ value[2] = 255 /\ value[3] = 0   -> "Start"
      [] value[1] = 0   /\ value[2] = 0   /\ value[3] = 255 -> "Checkpoint"
      [] value[1] = 255 /\ value[2] = 255 /\ value[3] = 255 -> "Empty"
      [] OTHER                                              -> "Panic"

\* Point::new
Point(px, py) == [x |-> px, y |-> py]

\* Option<Point>: None is <<>>, Some(p) is <<p>>.
None == <<>>
Some(p) == <<p>>

\* img.get_pixel(x, y).0
GetPixel(px, py) == img[<<px, py>>]

\* Wall::length (u32; end >= start on both axes, so no subtraction wraps)
Length(wall) ==
    IF wall.end # None
    THEN (wall.end[1].x - wall.start.x) + (wall.end[1].y - wall.start.y)
    ELSE 1


\* Horizontal run extension (the inner while of the row-major scan): the
\* cursor moves right while the next cell of the row classifies as Wall.
\* ok is FALSE when a classification on the way panics.
ExtendRight_NoAdvance(cx, cy) == [ok |-> TRUE, x |-> cx]

ExtendRight_OneStep(cx, cy) ==
    IF (cx + 1) < width /\ From(GetPixel(cx + 1, cy)) = "Wall"
    THEN [ok |-> TRUE, x |-> cx + 1]
    ELSE [ok |-> TRUE, x |-> cx]

RECURSIVE ExtendRight(_, _)
ExtendRight(cx, cy) ==
    IF (cx + 1) < width
    THEN LET t == From(GetPixel(cx + 1, cy))
         IN  IF t = "Panic" THEN [ok |-> FALSE, x |-> cx]
             ELSE IF t = "Wall" THEN ExtendRight(cx + 1, cy)
             ELSE [ok |-> TRUE, x |-> cx]
    ELSE [ok |-> TRUE, x |-> cx]

\* Vertical run extension (the inner while of the column-major scan).
RECURSIVE ExtendDown(_, _)
ExtendDown(cx, cy) ==
    IF (cy + 1) < height
    THEN LET t == From(GetPixel(cx, cy + 1))
         IN  IF t = "Panic" THEN [ok |-> FALSE, y |-> cy]
             ELSE IF t = "Wall" THEN ExtendDown(cx, cy + 1)
             ELSE [ok |-> TRUE, y |-> cy]
    ELSE [ok |-> TRUE, y |-> cy]

\* The Wall pushed by the row-major scan for a run from start to column ex.
HWall_AlwaysEnd(start, ex) == [start |-> start, end |-> Some(Point(ex, start.y))]

HWall(start, ex) ==
    [start |-> start,
     end   |-> IF start.x # ex THEN Some(Point(ex, start.y)) ELSE None]

\* The Wall built by the column-major scan for a run from start to row ey.
VWall(start, ey) ==
    [start |-> start,
     end   |-> IF start.y # ey THEN Some(Point(start.x, ey)) ELSE None]

\* Only walls of more than one block are inserted by the column-major scan.
PushVertical_Always(vws, wall) == Append(vws, wall)

PushVertical(vws, wall) ==
    IF wall.end # None THEN Append(vws, wall) ELSE vws

\* The non-Wall arms of the match in the row-major scan.
RecordMarker_FirstWins(l, t, p) ==
    CASE t = "End"        -> IF l.end = Point(0, 0) THEN [l EXCEPT !.end = p] ELSE l
      [] t = "Checkpoint" -> [l EXCEPT !.checkpoints = Append(@, p)]
      [] t = "Start"      -> IF l.start = Point(0, 0) THEN [l EXCEPT !.start = p] ELSE l
      [] OTHER            -> l

RecordMarker(l, t, p) ==
    CASE t = "End"        -> [l EXCEPT !.end = p]
      [] t = "Checkpoint" -> [l EXCEPT !.checkpoints = Append(@, p)]
      [] t = "Start"      -> [l EXCEPT !.start = p]
      [] OTHER            -> l

\* check_if_point_is_wall
CheckIfPointIsWall_Exclusive(px, py, ws) ==
    \E i \in 1..Len(ws) :
        LET wall == ws[i]
            ex == IF wall.end = None THEN wall.start.x ELSE wall.end[1].x
            ey == IF wall.end = None THEN wall.start.y ELSE wall.end[1].y
        IN  (wall.start.x <= px /\ px <= ex) /\ (wall.start.y < py /\ py < ey)

CheckIfPointIsWall(px, py, ws) ==
    \E i \in 1..Len(ws) :
        LET wall == ws[i]
            ex == IF wall.end = None THEN wall.start.x ELSE wall.end[1].x
            ey == IF wall.end = None THEN wall.start.y ELSE wall.end[1].y
        IN  (wall.start.x <= px /\ px <= ex) /\ (wall.start.y <= py /\ py <= ey)

\* The filter closure over horizontal_walls.
KeepHWall_NoEndTest(h_wall, vws) ==
    ~CheckIfPointIsWall(h_wall.start.x, h_wall.start.y, vws)

KeepHWall(h_wall, vws) ==
    h_wall.end # None \/ ~CheckIfPointIsWall(h_wall.start.x, h_wall.start.y, vws)

\* horizontal_walls.into_iter().filter(..).collect()
RECURSIVE FilterWalls(_, _)
FilterWalls(hws, vws) ==
    IF hws = <<>> THEN <<>>
    ELSE (IF KeepHWall(Head(hws), vws) THEN <<Head(hws)>> ELSE <<>>)
         \o FilterWalls(Tail(hws), vws)

\* Vec::sort with Ord for Wall (comparison of lengths): a stable ascending
\* sort, so an element goes after every earlier element that is not greater.
InsertWall(sorted, wall) ==
    LET k == Cardinality({i \in 1..Len(sorted) : Length(sorted[i]) <= Length(wall)})
    IN  SubSeq(sorted, 1, k) \o <<wall>> \o SubSeq(sorted, k + 1, Len(sorted))

RECURSIVE SortWalls(_)
SortWalls(ws) ==
    IF ws = <<>> THEN <<>>
    ELSE InsertWall(SortWalls(SubSeq(ws, 1, Len(ws) - 1)), ws[Len(ws)])

\* Vec::reverse
Reverse(ws) == [i \in 1..Len(ws) |-> ws[Len(ws) + 1 - i]]

\* walls.sort(); walls.reverse();
RankWalls_NoReverse(ws) == SortWalls(ws)

RankWalls_SortDescending(ws) == Reverse(SortWalls(Reverse(ws)))

RankWalls(ws) == Reverse(SortWalls(ws))

----------------------------------------------------------------------------
Init ==
    /\ \E w \in 1..MaxW, h \in 1..MaxH :
          /\ w * h <= MaxCells
          /\ width = w
          /\ height = h
          /\ img \in [(0..(w - 1)) \X (0..(h - 1)) -> Pixels]
    /\ pc = "hscan"
    /\ x = 0
    /\ y = 0
    /\ horizontal_walls = <<>>
    /\ vertical_walls = <<>>
    /\ walls = <<>>
    /\ lvl = [width |-> width, height |-> height, walls |-> <<>>,
              start |-> Point(0, 0), end |-> Point(0, 0), checkpoints |-> <<>>]
    /\ out = <<>>

\* One iteration of the inner loop of the row-major scan (lines 135-161).
HStep ==
    /\ pc = "hscan"
    /\ y < height
    /\ x < width
    /\ LET t == From(GetPixel(x, y))
           r == ExtendRight(x, y)
       IN  IF t = "Panic" \/ (t = "Wall" /\ ~r.ok)
           THEN /\ pc' = "panicked"
                /\ UNCHANGED <<x, horizontal_walls, lvl>>
           ELSE IF t = "Wall"
           THEN /\ horizontal_walls' = Append(horizontal_walls, HWall(Point(x, y), r.x))
                /\ x' = r.x + 1
                /\ UNCHANGED <<pc, lvl>>
           ELSE /\ lvl' = RecordMarker(lvl, t, Point(x, y))
                /\ x' = x + 1
                /\ UNCHANGED <<pc, horizontal_walls>>
    /\ UNCHANGED <<img, width, height, y, vertical_walls, walls, out>>

\* End of a row: y += 1, and either the next row starts at x = 0 or the
\* column-major scan starts at x = 0, y = 0 (lines 133-134, 162, 167-169).
HRowEnd ==
    /\ pc = "hscan"
    /\ y < height
    /\ x >= width
    /\ x' = 0
    /\ IF (y + 1) < height
       THEN y' = y + 1 /\ pc' = "hscan"
       ELSE y' = 0 /\ pc' = "vscan"
    /\ UNCHANGED <<img, width, height, horizontal_walls, vertical_walls, walls,
                   lvl, out>>

\* One iteration of the inner loop of the column-major scan (lines 170-195).
VStep ==
    /\ pc = "vscan"
    /\ x < width
    /\ y < height
    /\ LET t == From(GetPixel(x, y))
           r == ExtendDown(x, y)
       IN  IF t = "Panic" \/ (t = "Wall" /\ ~r.ok)
           THEN /\ pc' = "panicked"
                /\ UNCHANGED <<y, vertical_walls>>
           ELSE IF t = "Wall"
           THEN /\ vertical_walls' = PushVertical(vertical_walls, VWall(Point(x, y), r.y))
                /\ y' = r.y + 1
                /\ UNCHANGED pc
           ELSE /\ y' = y + 1
                /\ UNCHANGED <<pc, vertical_walls>>
    /\ UNCHANGED <<img, width, height, x, horizontal_walls, walls, lvl, out>>

\* End of a column: x += 1, and either the next column starts at y = 0 or
\* the scan is over (lines 168-169, 197).
VColEnd ==
    /\ pc = "vscan"
    /\ x < width
    /\ y >= height
    /\ x' = x + 1
    /\ IF (x + 1) < width
       THEN y' = 0 /\ pc' = "vscan"
       ELSE y' = y /\ pc' = "reconcile"
    /\ UNCHANGED <<img, width, height, horizontal_walls, vertical_walls, walls,
                   lvl, out>>

\* The filter over horizontal_walls, then walls.append(&mut vertical_walls)
\* (lines 201-209): horizontal_walls is consumed, vertical_walls is drained.
Reconcile ==
    /\ pc = "reconcile"
    /\ walls' = FilterWalls(horizontal_walls, vertical_walls) \o vertical_walls
    /\ horizontal_walls' = <<>>
    /\ vertical_walls' = <<>>
    /\ pc' = "rank"
    /\ UNCHANGED <<img, width, height, x, y, lvl, out>>

\* walls.sort(); walls.reverse(); lvl.walls = walls (lines 211-214): walls is
\* moved into lvl.
Rank ==
    /\ pc = "rank"
    /\ lvl' = [lvl EXCEPT !.walls = RankWalls(walls)]
    /\ walls' = <<>>
    /\ pc' = "emit"
    /\ UNCHANGED <<img, width, height, x, y, horizontal_walls, vertical_walls, out>>

\* serde_json::to_writer(writer, &lvl) (lines 216-232).
Emit ==
    /\ pc = "emit"
    /\ out' = <<lvl>>
    /\ pc' = "done"
    /\ UNCHANGED <<img, width, height, x, y, horizontal_walls, vertical_walls,
                   walls, lvl>>

Next == HStep \/ HRowEnd \/ VStep \/ VColEnd \/ Reconcile \/ Rank \/ Emit

Spec == Init /\ [][Next]_vars

\* The same program on palette-valid images with longer rows and columns.
InitScan ==
    /\ \E w \in 1..ScanW, h \in 1..ScanH :
          /\ w * h <= MaxCells
          /\ width = w
          /\ height = h
          /\ img \in [(0..(w - 1)) \X (0..(h - 1)) -> PalettePixels]
    /\ pc = "hscan"
    /\ x = 0
    /\ y = 0
    /\ horizontal_walls = <<>>
    /\ vertical_walls = <<>>
    /\ walls = <<>>
    /\ lvl = [width |-> width, height |-> height, walls |-> <<>>,
              start |-> Point(0, 0), end |-> Point(0, 0), checkpoints |-> <<>>]
    /\ out = <<>>

SpecScan == InitScan /\ [][Next]_vars

----------------------------------------------------------------------------
\* Vocabulary of the properties, stated on the raw colour samples.
IsBlack(p) == p[1] = 0   /\ p[2] = 0   /\ p[3] = 0
IsRed(p)   == p[1] = 255 /\ p[2] = 0   /\ p[3] = 0
IsGreen(p) == p[1] = 0   /\ p[2] = 255 /\ p[3] = 0
IsBlue(p)  == p[1] = 0   /\ p[2] = 0   /\ p[3] = 255
IsWhite(p) == p[1] = 255 /\ p[2] = 255 /\ p[3] = 255
InPalette(p) == IsBlack(p) \/ IsRed(p) \/ IsGreen(p) \/ IsBlue(p) \/ IsWhite(p)

Cells == (0..(width - 1)) \X (0..(height - 1))
WallCells == {c \in Cells : IsBlack(img[c])}
PaletteValid == \A c \in Cells : InPalette(img[c])
IsWallAt(cx, cy) == <<cx, cy>> \in Cells /\ IsBlack(img[<<cx, cy>>])

\* Geometric length of a wall as the specification defines it.
GeoLength(w) ==
    IF w.end = <<>> THEN 1
    ELSE (w.end[1].x - w.start.x) + (w.end[1].y - w.start.y)

IsSingle(w) == w.end = <<>>
IsMultiVertical(w) == w.end # <<>> /\ w.end[1].x = w.start.x /\ w.end[1].y > w.start.y
IsMultiHorizontal(w) == w.end # <<>> /\ w.end[1].y = w.start.y /\ w.end[1].x > w.start.x

InBox(p, w) ==
    LET e == IF w.end = <<>> THEN w.start ELSE w.end[1]
    IN  w.start.x <= p.x /\ p.x <= e.x /\ w.start.y <= p.y /\ p.y <= e.y

\* The cells a wall covers: start to end inclusive, or start alone.
Cover(w) ==
    LET e == IF w.end = <<>> THEN w.start ELSE w.end[1]
    IN  {c \in (w.start.x..e.x) \X (w.start.y..e.y) : TRUE}

CoverAll(ws) == UNION {Cover(ws[i]) : i \in 1..Len(ws)}

\* The wall lists of a Level in the making and of the Level written out.
OutWalls == IF out = <<>> THEN <<>> ELSE out[1].walls

Descending(ws) ==
    \A i, j \in 1..Len(ws) : i < j => GeoLength(ws[i]) >= GeoLength(ws[j])

PosIn(ws, w) == CHOOSE i \in 1..Len(ws) : ws[i] = w

IsPermutation(old, new) ==
    /\ Len(old) = Len(new)
    /\ \A i \in 1..Len(old) : \E j \in 1..Len(new) : new[j] = old[i]
    /\ \A j \in 1..Len(new) : \E i \in 1..Len(old) : new[j] = old[i]

\* Walls of equal length keep the relative order they had in old.
TiesKeepOrder(old, new) ==
    /\ IsPermutation(old, new)
    /\ \A i, j \in 1..Len(old) :
          (i < j /\ GeoLength(old[i]) = GeoLength(old[j]))
              => PosIn(new, old[i]) < PosIn(new, old[j])

\* Walls of equal length appear in the opposite of their order in old.
TiesReverseOrder(old, new) ==
    /\ IsPermutation(old, new)
    /\ \A i, j \in 1..Len(old) :
          (i < j /\ GeoLength(old[i]) = GeoLength(old[j]))
              => PosIn(new, old[i]) > PosIn(new, old[j])

\* C1: the output wall list is ordered by length descending.
C1_WallsDescending == Descending(lvl.walls) /\ Descending(OutWalls)

C1_Witness ==
    /\ pc = "done"
    /\ \E i, j \in 1..Len(OutWalls) :
          i < j /\ GeoLength(OutWalls[i]) > GeoLength(OutWalls[j])

\* C2 as stated: ranking keeps walls of equal length in the relative order
\* of the reconciled list (horizontal walls before vertical walls).
C2_TiesKeepReconciledOrder ==
    [][(pc = "rank" /\ pc' = "emit") => TiesKeepOrder(walls, lvl'.walls)]_vars

\* C2 amended: ranking puts walls of equal length in the reverse of their
\* relative order in the reconciled list (sort ascending, then reverse), so
\* among walls of equal length vertical walls come before horizontal ones.
C2_TiesReverseReconciledOrder ==
    [][(pc = "rank" /\ pc' = "emit") => TiesReverseOrder(walls, lvl'.walls)]_vars

C2_Witness ==
    /\ pc = "done"
    /\ \E i, j \in 1..Len(OutWalls) :
          /\ i < j
          /\ GeoLength(OutWalls[i]) = GeoLength(OutWalls[j])
          /\ IsMultiVertical(OutWalls[i])
          /\ ~IsMultiVertical(OutWalls[j])

\* C3: no single-cell wall of the output lies inside the bounding box of a
\* multi-cell vertical wall of the output.
NoSingleInVertical(ws) ==
    \A i, j \in 1..Len(ws) :
        (IsSingle(ws[i]) /\ IsMultiVertical(ws[j])) => ~InBox(ws[i].start, ws[j])

C3_NoSingleInsideVertical == NoSingleInVertical(lvl.walls) /\ NoSingleInVertical(OutWalls)

\* A single-cell wall survives next to a vertical wall while the single
\* cells of the vertical run were dropped.
C3_Witness ==
    /\ pc = "done"
    /\ \E i, j \in 1..Len(OutWalls) : IsSingle(OutWalls[i]) /\ IsMultiVertical(OutWalls[j])
    /\ \E c \in WallCells :
          /\ ~IsWallAt(c[1] - 1, c[2]) /\ ~IsWallAt(c[1] + 1, c[2])
          /\ \A i \in 1..Len(OutWalls) :
                ~(IsSingle(OutWalls[i]) /\ OutWalls[i].start = Point(c[1], c[2]))

\* Scenario D: 2 wide, 3 high, Wall at (0,0), (0,1), (0,2), (1,0), Empty elsewhere.
ScenarioD ==
    /\ width = 2
    /\ height = 3
    /\ \A c \in Cells :
          IF c \in {<<0, 0>>, <<0, 1>>, <<0, 2>>, <<1, 0>>}
          THEN IsBlack(img[c]) ELSE IsWhite(img[c])

\* C4 as stated: Scenario D yields the vertical wall followed by a
\* single-cell wall at (1,0).
C4_ScenarioD_SingleCell ==
    (ScenarioD /\ pc = "done") =>
        OutWalls = << [start |-> Point(0, 0), end |-> <<Point(0, 2)>>],
                      [start |-> Point(1, 0), end |-> <<>>] >>

\* C4 amended: Scenario D yields the vertical wall (0,0)-(0,2) followed by
\* the two-cell horizontal wall (0,0)-(1,0) of the run in row 0.
C4_ScenarioD_HorizontalRun ==
    (ScenarioD /\ pc = "done") =>
        OutWalls = << [start |-> Point(0, 0), end |-> <<Point(0, 2)>>],
                      [start |-> Point(0, 0), end |-> <<Point(1, 0)>>] >>

C4_Witness == ScenarioD /\ pc = "done" /\ Len(OutWalls) = 2

\* C5: every wall with an end varies along exactly one axis and ends at or
\* after its start on both axes.
WallShapeOK(w) ==
    w.end # <<>> =>
        /\ (w.end[1].x = w.start.x) # (w.end[1].y = w.start.y)
        /\ w.end[1].x >= w.start.x
        /\ w.end[1].y >= w.start.y

AllShapeOK(ws) == \A i \in 1..Len(ws) : WallShapeOK(ws[i])

C5_WallShape ==
    /\ AllShapeOK(horizontal_walls)
    /\ AllShapeOK(vertical_walls)
    /\ AllShapeOK(walls)
    /\ AllShapeOK(lvl.walls)
    /\ AllShapeOK(OutWalls)

C5_Witness ==
    /\ pc = "done"
    /\ \E i, j \in 1..Len(OutWalls) :
          /\ IsMultiHorizontal(OutWalls[i])
          /\ IsMultiVertical(OutWalls[j])
    /\ \E i \in 1..Len(OutWalls) : IsSingle(OutWalls[i])

\* C6: a sample outside the palette makes the run fail during the row-major
\* scan, before that scan completes, with nothing written; a palette-valid
\* grid never fails.
C6_UnsupportedColourAborts ==
    /\ ~PaletteValid =>
          /\ pc \in {"hscan", "panicked"}
          /\ out = <<>>
          /\ lvl.walls = <<>>
          /\ pc = "hscan" =>
                \E c \in Cells :
                    /\ ~InPalette(img[c])
                    /\ (c[2] > y \/ (c[2] = y /\ c[1] >= x))
    /\ PaletteValid => pc # "panicked"

C6_Witness ==
    /\ pc = "panicked"
    /\ ~PaletteValid
    /\ horizontal_walls # <<>>
    /\ lvl.checkpoints # <<>>
\* Row-major position of a cell, and of a Point.
RowMajor(c) == c[2] * width + c[1]
PointOf(c) == [x |-> c[1], y |-> c[2]]
CellOf(p) == <<p.x, p.y>>

StartCells == {c \in Cells : IsGreen(img[c])}
EndCells == {c \in Cells : IsRed(img[c])}
CheckpointCells == {c \in Cells : IsBlue(img[c])}

LastOf(S) == CHOOSE c \in S : \A d \in S : RowMajor(d) <= RowMajor(c)

\* l holds the last Start and End cells and every Checkpoint cell once, in
\* row-major order.
MarkersOK(l) ==
    /\ StartCells # {} => l.start = PointOf(LastOf(StartCells))
    /\ EndCells # {} => l.end = PointOf(LastOf(EndCells))
    /\ Len(l.checkpoints) = Cardinality(CheckpointCells)
    /\ {CellOf(l.checkpoints[i]) : i \in 1..Len(l.checkpoints)} = CheckpointCells
    /\ \A i, j \in 1..Len(l.checkpoints) :
          i < j => RowMajor(CellOf(l.checkpoints[i])) < RowMajor(CellOf(l.checkpoints[j]))

\* C7: after the row-major pass start and end are the last Start and End
\* cells in row-major order and checkpoints lists every Checkpoint cell
\* once in row-major order.
C7_MarkersRecorded ==
    /\ pc \in {"vscan", "reconcile", "rank", "emit", "done"} => MarkersOK(lvl)
    /\ pc = "done" => MarkersOK(out[1])

\* Several Start and End cells, and checkpoints to the right of wall runs.
C7_Witness ==
    /\ pc = "done"
    /\ Cardinality(StartCells) >= 2
    /\ Cardinality(EndCells) >= 2
    /\ \E c \in CheckpointCells : IsWallAt(c[1] - 1, c[2])
    /\ Len(out[1].checkpoints) >= 1

\* Maximal horizontal runs <<x0, x1, y>> of Wall cells.
HRuns ==
    {r \in (0..(width - 1)) \X (0..(width - 1)) \X (0..(height - 1)) :
        /\ r[1] <= r[2]
        /\ \A cx \in r[1]..r[2] : IsWallAt(cx, r[3])
        /\ ~IsWallAt(r[1] - 1, r[3])
        /\ ~IsWallAt(r[2] + 1, r[3])}

HRunWall(r) ==
    [start |-> [x |-> r[1], y |-> r[3]],
     end   |-> IF r[2] > r[1] THEN <<[x |-> r[2], y |-> r[3]]>> ELSE <<>>]

\* Maximal vertical runs <<x, y0, y1>> of Wall cells.
VRuns ==
    {r \in (0..(width - 1)) \X (0..(height - 1)) \X (0..(height - 1)) :
        /\ r[2] <= r[3]
        /\ \A cy \in r[2]..r[3] : IsWallAt(r[1], cy)
        /\ ~IsWallAt(r[1], r[2] - 1)
        /\ ~IsWallAt(r[1], r[3] + 1)}

LongVRuns == {r \in VRuns : r[3] > r[2]}

VRunWall(r) ==
    [start |-> [x |-> r[1], y |-> r[2]], end |-> <<[x |-> r[1], y |-> r[3]]>>]

RowMajorSorted(ws) ==
    \A i, j \in 1..Len(ws) :
        i < j => \/ ws[i].start.y < ws[j].start.y
                 \/ (ws[i].start.y = ws[j].start.y /\ ws[i].start.x < ws[j].start.x)

ColMajorSorted(ws) ==
    \A i, j \in 1..Len(ws) :
        i < j => \/ ws[i].start.x < ws[j].start.x
                 \/ (ws[i].start.x = ws[j].start.x /\ ws[i].start.y < ws[j].start.y)

\* C8: the row-major scan emits exactly one wall per maximal horizontal run,
\* top-to-bottom then left-to-right, with end absent for a one-cell run.
C8_HorizontalRuns ==
    pc \in {"vscan", "reconcile"} =>
        /\ Len(horizontal_walls) = Cardinality(HRuns)
        /\ {horizontal_walls[i] : i \in 1..Len(horizontal_walls)}
               = {HRunWall(r) : r \in HRuns}
        /\ RowMajorSorted(horizontal_walls)

\* One row holds two maximal runs, the first of three or more cells.
C8_Witness ==
    /\ pc = "reconcile"
    /\ \E i, j \in 1..Len(horizontal_walls) :
          /\ i < j
          /\ horizontal_walls[i].start.y = horizontal_walls[j].start.y
          /\ GeoLength(horizontal_walls[i]) >= 2
          /\ IsMultiHorizontal(horizontal_walls[i])

\* C9: the column-major scan emits exactly one wall per maximal vertical run
\* of two or more cells, left-to-right then top-to-bottom, and none for a
\* Wall cell with no Wall cell above or below it.
C9_VerticalRuns ==
    pc = "reconcile" =>
        /\ Len(vertical_walls) = Cardinality(LongVRuns)
        /\ {vertical_walls[i] : i \in 1..Len(vertical_walls)}
               = {VRunWall(r) : r \in LongVRuns}
        /\ ColMajorSorted(vertical_walls)

\* One column holds two maximal runs of two or more cells.
C9_Witness ==
    /\ pc = "reconcile"
    /\ \E i, j \in 1..Len(vertical_walls) :
          /\ i < j
          /\ vertical_walls[i].start.x = vertical_walls[j].start.x

\* C10: the cells covered by the output walls are exactly the Wall cells.
C10_CoveragePreserved ==
    /\ pc \in {"emit", "done"} => CoverAll(lvl.walls) = WallCells
    /\ pc = "done" => CoverAll(OutWalls) = WallCells

\* A one-cell horizontal wall was dropped, and walls of both axes overlap.
C10_Witness ==
    /\ pc = "done"
    /\ Len(OutWalls) < Cardinality(HRuns) + Cardinality(LongVRuns)
    /\ \E i, j \in 1..Len(OutWalls) :
          /\ IsMultiHorizontal(OutWalls[i])
          /\ IsMultiVertical(OutWalls[j])
          /\ Cover(OutWalls[i]) \cap Cover(OutWalls[j]) # {}
====
